---- MODULE Spec2Model ----
(***************************************************************************)
(* voice-pruner: the permission-triggered enforcement engine.              *)
(*                                                                         *)
(* One guild.  The gateway delivers events; Bot::process spawns one task   *)
(* per event (main.rs).  A task first applies the event to the in-memory   *)
(* cache, then matches on it (events.rs), and for a permission-relevant    *)
(* event runs Permission::act (events/permission.rs): the opt-out check,   *)
(* the candidate search (search.rs) and the concurrent removal calls       *)
(* (Bot::remove, main.rs).  The prune command re-enters search and remove  *)
(* (command/prune.rs, commands/prune.rs).  Tasks run on a multi-threaded   *)
(* runtime: every step of a task is one action and the steps of different  *)
(* tasks interleave freely.                                                *)
(***************************************************************************)
EXTENDS Integers, Sequences, FiniteSets, TLC

VARIABLES cache, tasks

vars == <<cache, tasks>>

\* ------------------------------------------------------------------ bounds

\* Number of gateway events delivered in one behaviour.
MaxEvents == 2

\* ------------------------------------------------------------- identities

BotId == "bot"

UserIds == {"bot", "u1", "u2"}

\* The guild's id; the default (@everyone) role has the same id.
GuildId == "g"

RoleIds == {"g", "r1"}

ChannelIds == {"v1", "v2", "s1", "t1"}

\* GuildChannel variant of a channel id: fixed for the life of the channel.
ChannelKind(c) ==
    CASE c = "s1" -> "stage"
      [] c = "t1" -> "text"
      [] OTHER -> "voice"

\* Iteration orders of the cache's collections (one order a hash set can yield).
guild_channels == <<"v1", "v2", "s1", "t1">>

UserOrder == <<"u1", "u2", "bot">>

CONNECT == "CONNECT"

MOVE_MEMBERS == "MOVE_MEMBERS"

Permissions == {CONNECT, MOVE_MEMBERS}

\* The single ChannelType the search accepts (used as a match pattern and as
\* the one-element list of a command option's channel types).
MONITORED_CHANNEL_TYPES == "voice"

NoAutoPrune == "no-auto-prune"

RoleNames == {NoAutoPrune, "dj"}

\* ------------------------------------------------------ permission overwrites

Overwrite(type, id, allow, deny) ==
    [type |-> type, id |-> id, allow |-> allow, deny |-> deny]

DenyConnectEveryone == Overwrite("role", GuildId, {}, {CONNECT})

DenyMoveEveryone == Overwrite("role", GuildId, {}, {MOVE_MEMBERS})

\* The overwrite lists channel payloads carry.
OverwriteLists ==
    { <<>>, <<DenyConnectEveryone>>, <<DenyMoveEveryone>> }

\* ------------------------------------------------------------ cache entries

NoChannel == [cached |-> FALSE, permission_overwrites |-> <<>>]

CachedChannel(ow) == [cached |-> TRUE, permission_overwrites |-> ow]

NoRole == [cached |-> FALSE, permissions |-> {}, name |-> ""]

CachedRole(perms, name) == [cached |-> TRUE, permissions |-> perms, name |-> name]

NoMember == [cached |-> FALSE, roles |-> {}]

CachedMember(roles) == [cached |-> TRUE, roles |-> roles]

\* A voice state is cached only while the user is connected; it carries the
\* member object of the payload that created it.
NoVoiceState ==
    [cached |-> FALSE, channel_id |-> "", has_member |-> FALSE, member_roles |-> {}]

CachedVoiceState(c, has_member, roles) ==
    [cached |-> TRUE, channel_id |-> c, has_member |-> has_member,
     member_roles |-> roles]

\* ------------------------------------------------------ the permission oracle

\* Overwrites of one type that apply to the ids `ids`, folded into (allow, deny).
OverwriteAllow(ow, type, ids) ==
    UNION { ow[i].allow : i \in { j \in DOMAIN ow : ow[j].type = type /\ ow[j].id \in ids } }

OverwriteDeny(ow, type, ids) ==
    UNION { ow[i].deny : i \in { j \in DOMAIN ow : ow[j].type = type /\ ow[j].id \in ids } }

ApplyOverwrites(perms, ow, type, ids) ==
    (perms \ OverwriteDeny(ow, type, ids)) \cup OverwriteAllow(ow, type, ids)

\* cache.permissions().in_channel(user, channel): the effective permissions, or
\* an error when the channel, the member or one of the member's roles is not
\* in the cache.
in_channel(c, user_id, channel_id) ==
    IF \/ ~c.channels[channel_id].cached
       \/ ~c.members[user_id].cached
       \/ ~c.roles[GuildId].cached
       \/ \E r \in c.members[user_id].roles : ~c.roles[r].cached
    THEN [ok |-> FALSE, permissions |-> {}]
    ELSE LET ow == c.channels[channel_id].permission_overwrites
             roles == c.members[user_id].roles
             base == c.roles[GuildId].permissions
                         \cup UNION { c.roles[r].permissions : r \in roles }
             p1 == ApplyOverwrites(base, ow, "role", {GuildId})
             p2 == ApplyOverwrites(p1, ow, "role", roles)
             p3 == ApplyOverwrites(p2, ow, "member", {user_id})
         IN [ok |-> TRUE, permissions |-> p3]

\* monitored with the oracle's error defaulting to true, as Bot::permitted
\* defaults.
monitored_or_true(c, channel_id) ==
    LET p == in_channel(c, BotId, channel_id)
    IN ~p.ok \/ MOVE_MEMBERS \in p.permissions

\* Bot::monitored / Bot::is_monitored: the bot may move members in the channel;
\* an oracle error counts as unmonitored.
monitored(c, channel_id) ==
    LET p == in_channel(c, BotId, channel_id)
    IN p.ok /\ MOVE_MEMBERS \in p.permissions

\* ------------------------------------------------------------------ search

NoRoleFilter == "none"

\* What a search returns: Ok with the users to remove, or an error; Refused is
\* the answer of a caller that returned before searching.
Ok(users) == [tag |-> "Ok", users |-> users, searched |-> TRUE]

Err(tag) == [tag |-> tag, users |-> <<>>, searched |-> TRUE]

Refused(tag) == [tag |-> tag, users |-> <<>>, searched |-> FALSE]

RECURSIVE Flatten(_)
Flatten(ss) ==
    IF ss = <<>> THEN <<>> ELSE Head(ss) \o Flatten(Tail(ss))

Range(s) == { s[i] : i \in DOMAIN s }

\* Search::is_permitted: the oracle's answer is unwrapped with expect, so an
\* oracle error is a panic ("panic"), otherwise whether CONNECT is included.
is_permitted(c, user_id) ==
    LET p == in_channel(c, user_id, c.voice_states[user_id].channel_id)
    IN IF ~p.ok THEN "panic"
       ELSE IF CONNECT \in p.permissions THEN "yes" ELSE "no"

\* The role filter of Search::channel: a state passes when no role is given or
\* the state carries no member; the default role's id is the guild's id.
RoleFilter(c, user_id, role_id) ==
    LET state == c.voice_states[user_id]
    IN IF role_id # NoRoleFilter /\ state.has_member
       THEN role_id = GuildId \/ role_id \in state.member_roles
       ELSE TRUE

\* The voice states of the whole guild, whatever the channel asked for.
voice_channel_states_all(c, channel_id) ==
    LET Connected(u) == c.voice_states[u].cached
    IN SelectSeq(UserOrder, Connected)

\* cache.voice_channel_states(channel_id), in iteration order.
voice_channel_states(c, channel_id) ==
    LET InChannel(u) ==
            c.voice_states[u].cached /\ c.voice_states[u].channel_id = channel_id
    IN SelectSeq(UserOrder, InChannel)

\* Search::channel without the is_monitored check.
SearchChannel_unchecked(c, channel_id, role_id) ==
    IF ~c.channels[channel_id].cached THEN Err("Internal")
    ELSE IF ChannelKind(channel_id) # MONITORED_CHANNEL_TYPES THEN Err("NotAVoiceChannel")
    ELSE LET Passes(u) == RoleFilter(c, u, role_id)
             states == SelectSeq(voice_channel_states(c, channel_id), Passes)
             Denied(u) == is_permitted(c, u) = "no"
         IN IF \E i \in DOMAIN states : is_permitted(c, states[i]) = "panic"
            THEN Err("Panic")
            ELSE Ok(SelectSeq(states, Denied))

\* Search::channel asking is_monitored before it looks at the channel's kind.
SearchChannel_monitored_first(c, channel_id, role_id) ==
    IF ~c.channels[channel_id].cached THEN Err("Internal")
    ELSE IF ~monitored(c, channel_id) THEN Err("Unmonitored")
    ELSE IF ChannelKind(channel_id) # MONITORED_CHANNEL_TYPES THEN Err("NotAVoiceChannel")
    ELSE LET Passes(u) == RoleFilter(c, u, role_id)
             states == SelectSeq(voice_channel_states(c, channel_id), Passes)
             Denied(u) == is_permitted(c, u) = "no"
         IN IF \E i \in DOMAIN states : is_permitted(c, states[i]) = "panic"
            THEN Err("Panic")
            ELSE Ok(SelectSeq(states, Denied))

\* Search::channel
SearchChannel(c, channel_id, role_id) ==
    IF ~c.channels[channel_id].cached THEN Err("Internal")
    ELSE IF ChannelKind(channel_id) # MONITORED_CHANNEL_TYPES THEN Err("NotAVoiceChannel")
    ELSE IF ~monitored(c, channel_id) THEN Err("Unmonitored")
    ELSE LET Passes(u) == RoleFilter(c, u, role_id)
             states == SelectSeq(voice_channel_states(c, channel_id), Passes)
             Denied(u) == is_permitted(c, u) = "no"
         IN IF \E i \in DOMAIN states : is_permitted(c, states[i]) = "panic"
            THEN Err("Panic")
            ELSE Ok(SelectSeq(states, Denied))

\* The guild search goes through the channels and then through the first of
\* them once more.
SearchGuild_again(c, role_id) ==
    LET IsCached(ch) == c.channels[ch].cached
        cached == SelectSeq(guild_channels, IsCached)
        channels == IF cached = <<>> THEN <<>> ELSE Append(cached, Head(cached))
        results == [i \in DOMAIN channels |-> SearchChannel(c, channels[i], role_id)]
        UsersOf(r) == IF r.tag = "Ok" THEN r.users ELSE <<>>
    IN IF \E i \in DOMAIN results : results[i].tag = "Panic"
       THEN Err("Panic")
       ELSE Ok(Flatten([i \in DOMAIN results |-> UsersOf(results[i])]))

\* Search::guild: the channels whose search fails are dropped.
SearchGuild(c, role_id) ==
    LET IsCached(ch) == c.channels[ch].cached
        channels == SelectSeq(guild_channels, IsCached)
        results == [i \in DOMAIN channels |-> SearchChannel(c, channels[i], role_id)]
        UsersOf(r) == IF r.tag = "Ok" THEN r.users ELSE <<>>
    IN IF \E i \in DOMAIN results : results[i].tag = "Panic"
       THEN Err("Panic")
       ELSE Ok(Flatten([i \in DOMAIN results |-> UsersOf(results[i])]))

\* The member search takes a user without a cached voice state for a violator.
SearchUser_unconnected(c, user_id) ==
    IF ~c.voice_states[user_id].cached THEN Ok(<<user_id>>)
    ELSE IF ~monitored(c, c.voice_states[user_id].channel_id) THEN Err("Unmonitored")
    ELSE LET p == is_permitted(c, user_id)
         IN IF p = "panic" THEN Err("Panic")
            ELSE IF p = "no" THEN Ok(<<user_id>>) ELSE Ok(<<>>)

\* Search::user, as Permission::act consumes it: the user when the search
\* answers Ok(true), nobody on Ok(false) or on an error.
SearchUser(c, user_id) ==
    IF ~c.voice_states[user_id].cached THEN Err("NotInVoice")
    ELSE IF ~monitored(c, c.voice_states[user_id].channel_id) THEN Err("Unmonitored")
    ELSE LET p == is_permitted(c, user_id)
         IN IF p = "panic" THEN Err("Panic")
            ELSE IF p = "no" THEN Ok(<<user_id>>) ELSE Ok(<<>>)

\* prune::user (prune.rs): the user when they have a voice state and are not
\* permitted in it; the channel's monitoredness is not consulted.
PruneUser(c, user_id) ==
    IF ~c.voice_states[user_id].cached THEN Ok(<<>>)
    ELSE LET p == is_permitted(c, user_id)
         IN IF p = "panic" THEN Err("Panic")
            ELSE IF p = "no" THEN Ok(<<user_id>>) ELSE Ok(<<>>)

\* is_disabled without the comparison of the role's name.
is_disabled_never(c) ==
    IF ~c.members[BotId].cached THEN "panic" ELSE "no"

\* Permission::is_disabled: expect panics when the bot's member is not cached;
\* a role id that is not cached does not count.
is_disabled(c) ==
    IF ~c.members[BotId].cached THEN "panic"
    ELSE IF \E r \in c.members[BotId].roles :
                c.roles[r].cached /\ c.roles[r].name = NoAutoPrune
         THEN "yes" ELSE "no"

\* ------------------------------------------------------------------ events

NoId == "none"

BlankEvent ==
    [type |-> "", id |-> NoId, permission_overwrites |-> <<>>, roles |-> {},
     permissions |-> {}, name |-> "", channel_id |-> NoId, has_member |-> FALSE,
     role_id |-> NoRoleFilter, caller_permissions |-> {}]

ChannelUpdate(channel_id, ow) ==
    [BlankEvent EXCEPT !.type = "ChannelUpdate", !.id = channel_id,
                       !.permission_overwrites = ow]

MemberUpdate(user_id, roles) ==
    [BlankEvent EXCEPT !.type = "MemberUpdate", !.id = user_id, !.roles = roles]

RoleDelete(role_id) ==
    [BlankEvent EXCEPT !.type = "RoleDelete", !.id = role_id]

RoleUpdate(role_id, perms, name) ==
    [BlankEvent EXCEPT !.type = "RoleUpdate", !.id = role_id, !.permissions = perms,
                       !.name = name]

VoiceStateUpdate(user_id, channel_id, has_member, roles) ==
    [BlankEvent EXCEPT !.type = "VoiceStateUpdate", !.id = user_id,
                       !.channel_id = channel_id, !.has_member = has_member,
                       !.roles = roles]

MemberAdd(user_id, roles) ==
    [BlankEvent EXCEPT !.type = "MemberAdd", !.id = user_id, !.roles = roles]

\* The prune command, sent inside the guild: the resolved channel and role
\* options and the caller's permissions carried by the interaction.
PruneCommand(channel_id, role_id, caller) ==
    [BlankEvent EXCEPT !.type = "InteractionCreate", !.channel_id = channel_id,
                       !.role_id = role_id, !.caller_permissions = caller]

\* Role ids other than the default role: the roles a member object lists.
MemberRoleSets == SUBSET (RoleIds \ {GuildId})

\* The payloads the gateway delivers.  A voice state's member object lists the
\* roles the user holds at the gateway: none for u1, r1 for u2.
GatewayRoles(u) == IF u = "u2" THEN {"r1"} ELSE {}

ChannelUpdates ==
    { ChannelUpdate(c, ow) : c \in {"v1", "v2"}, ow \in OverwriteLists }
        \cup { ChannelUpdate(c, ow) :
                 c \in {"s1", "t1"}, ow \in {<<>>, <<DenyConnectEveryone>>} }

MemberUpdates ==
    { MemberUpdate(u, rs) : u \in UserIds, rs \in MemberRoleSets }

RoleDeletes == { RoleDelete(r) : r \in RoleIds \ {GuildId} }

RoleUpdates ==
    { RoleUpdate(GuildId, p, "@everyone") : p \in SUBSET Permissions }
        \cup { RoleUpdate("r1", p, n) : p \in {{}, {CONNECT}}, n \in RoleNames }

VoiceStateUpdates ==
    { VoiceStateUpdate(u, NoId, FALSE, {}) : u \in UserIds \ {BotId} }
        \cup { VoiceStateUpdate(u, c, TRUE, GatewayRoles(u)) :
                 u \in UserIds \ {BotId}, c \in {"v1", "v2", "s1"} }
        \cup { VoiceStateUpdate(u, "v1", FALSE, {}) : u \in UserIds \ {BotId} }

MemberAdds == { MemberAdd(BotId, rs) : rs \in MemberRoleSets }

PruneCommands ==
    { PruneCommand(c, r, {MOVE_MEMBERS}) :
        c \in {NoId, "v1", "t1"}, r \in {NoRoleFilter, "r1"} }
        \cup { PruneCommand(NoId, NoRoleFilter, {}),
               PruneCommand("v2", NoRoleFilter, {MOVE_MEMBERS}) }

Events ==
    ChannelUpdates \cup MemberUpdates \cup RoleDeletes \cup RoleUpdates
        \cup VoiceStateUpdates \cup MemberAdds \cup PruneCommands

\* The cache keeps the voice state of a user who left voice.
Update_keep(c, e) ==
    CASE e.type = "ChannelUpdate" ->
           [c EXCEPT !.channels[e.id] = CachedChannel(e.permission_overwrites)]
      [] e.type = "MemberUpdate" ->
           IF c.members[e.id].cached
           THEN [c EXCEPT !.members[e.id] = CachedMember(e.roles)]
           ELSE c
      [] e.type = "RoleDelete" -> [c EXCEPT !.roles[e.id] = NoRole]
      [] e.type = "RoleUpdate" ->
           [c EXCEPT !.roles[e.id] = CachedRole(e.permissions, e.name)]
      [] e.type = "VoiceStateUpdate" ->
           IF e.channel_id = NoId
           THEN c
           ELSE IF e.has_member
           THEN [c EXCEPT !.voice_states[e.id] =
                              CachedVoiceState(e.channel_id, TRUE, e.roles),
                          !.members[e.id] = CachedMember(e.roles)]
           ELSE [c EXCEPT !.voice_states[e.id] =
                              CachedVoiceState(e.channel_id, FALSE, {})]
      [] e.type = "MemberAdd" -> [c EXCEPT !.members[e.id] = CachedMember(e.roles)]
      [] OTHER -> c

\* InMemoryCache::update
Update(c, e) ==
    CASE e.type = "ChannelUpdate" ->
           [c EXCEPT !.channels[e.id] = CachedChannel(e.permission_overwrites)]
      [] e.type = "MemberUpdate" ->
           IF c.members[e.id].cached
           THEN [c EXCEPT !.members[e.id] = CachedMember(e.roles)]
           ELSE c
      [] e.type = "RoleDelete" -> [c EXCEPT !.roles[e.id] = NoRole]
      [] e.type = "RoleUpdate" ->
           [c EXCEPT !.roles[e.id] = CachedRole(e.permissions, e.name)]
      [] e.type = "VoiceStateUpdate" ->
           IF e.channel_id = NoId
           THEN [c EXCEPT !.voice_states[e.id] = NoVoiceState]
           ELSE IF e.has_member
           THEN [c EXCEPT !.voice_states[e.id] =
                              CachedVoiceState(e.channel_id, TRUE, e.roles),
                          !.members[e.id] = CachedMember(e.roles)]
           ELSE [c EXCEPT !.voice_states[e.id] =
                              CachedVoiceState(e.channel_id, FALSE, {})]
      [] e.type = "MemberAdd" -> [c EXCEPT !.members[e.id] = CachedMember(e.roles)]
      [] OTHER -> c

\* ------------------------------------------------- what the claims speak of

\* A monitored channel as the specification defines it: a voice-capable
\* channel in which the bot holds the management capability.
VoiceCapable(channel_id) == ChannelKind(channel_id) \in {"voice", "stage"}

SpecMonitored(c, channel_id) ==
    /\ VoiceCapable(channel_id)
    /\ in_channel(c, BotId, channel_id).ok
    /\ MOVE_MEMBERS \in in_channel(c, BotId, channel_id).permissions

\* The oracle answers for the user in the channel and the answer lacks CONNECT.
DeniedConnect(c, user_id, channel_id) ==
    /\ in_channel(c, user_id, channel_id).ok
    /\ CONNECT \notin in_channel(c, user_id, channel_id).permissions

HasConnect(c, user_id, channel_id) ==
    /\ in_channel(c, user_id, channel_id).ok
    /\ CONNECT \in in_channel(c, user_id, channel_id).permissions

\* The users connected to a monitored channel and denied CONNECT there.
Violators(c) ==
    { u \in UserIds :
        /\ c.voice_states[u].cached
        /\ SpecMonitored(c, c.voice_states[u].channel_id)
        /\ DeniedConnect(c, u, c.voice_states[u].channel_id) }

\* The bot's cached member holds a role named no-auto-prune.
OptOutHeld(c) ==
    /\ c.members[BotId].cached
    /\ \E r \in c.members[BotId].roles :
           c.roles[r].cached /\ c.roles[r].name = NoAutoPrune

\* The users an update made violators: connected to a monitored channel in the
\* updated cache, with CONNECT before the update and without it after.
LostConnect(old, new) ==
    { u \in Violators(new) :
        /\ old.voice_states[u] = new.voice_states[u]
        /\ HasConnect(old, u, old.voice_states[u].channel_id) }

\* ------------------------------------------------------------------- tasks

NoMode == [kind |-> "", id |-> NoId]

Mode(kind, id) == [kind |-> kind, id |-> id]

NoPrev == [cached |-> FALSE, permission_overwrites |-> <<>>, permissions |-> {}]

\* A cache holding nothing: what a task has seen before its search ran.
NoCache ==
    [channels |-> [ch \in ChannelIds |-> NoChannel],
     roles |-> [r \in RoleIds |-> NoRole],
     members |-> [u \in UserIds |-> NoMember],
     voice_states |-> [u \in UserIds |-> NoVoiceState]]

\* One spawned task.  pc is its position; mode is the Permission it built;
\* candidates, calls, pending, succeeded are the sweep; the other fields record
\* what the claims speak of: the cache's value for the event's entity right
\* before this task's update (prev), why the match produced no scope (skip),
\* the users the update made violators (lost), the opt-out as it stood when
\* is_disabled ran or, for a command, when its search ran (optout,
\* bot_cached), the violators when the search ran (eligible), the cache the
\* search read (seen), the implementation that searched (via), whether the
\* interaction was acknowledged (acked), the removal calls that failed
\* (failed), the edits of the response (edits), the count it reported
\* (count), and whether some candidate was no longer a violator when the
\* removal calls were issued (stale).
\* No count has been reported.
NoCount == 0 - 1

NewTask(e) ==
    [event |-> e, pc |-> "update", mode |-> NoMode, prev |-> NoPrev, skip |-> "",
     lost |-> {}, checked |-> FALSE, optout |-> FALSE, bot_cached |-> FALSE,
     searched |-> FALSE, eligible |-> {}, seen |-> NoCache, via |-> "",
     candidates |-> <<>>,
     calls |-> <<>>, pending |-> {}, succeeded |-> 0, response |-> "",
     acked |-> FALSE, failed |-> 0, edits |-> 0, count |-> NoCount,
     stale |-> FALSE]

TaskIds == DOMAIN tasks

AutoTypes == {"ChannelUpdate", "MemberUpdate", "RoleDelete", "RoleUpdate"}

IsAuto(t) == t.event.type \in AutoTypes

IsCommand(t) == t.event.type = "InteractionCreate"

\* The pre-update value of the entity an event is about.
PrevOf(c, e) ==
    CASE e.type = "ChannelUpdate" ->
           [cached |-> c.channels[e.id].cached,
            permission_overwrites |-> c.channels[e.id].permission_overwrites,
            permissions |-> {}]
      [] e.type = "RoleUpdate" ->
           [cached |-> c.roles[e.id].cached, permission_overwrites |-> <<>>,
            permissions |-> c.roles[e.id].permissions]
      [] OTHER -> NoPrev

\* -------------------------------------------------------------- the actions

\* The event loop awaits the task of an event before it takes the next one.
Receive_awaited(e) ==
    /\ Len(tasks) < MaxEvents
    /\ \A i \in DOMAIN tasks :
          tasks[i].pc \in {"done", "panicked", "failed"} /\ tasks[i].pending = {}
    /\ tasks' = Append(tasks, NewTask(e))
    /\ UNCHANGED cache

\* Bot::process: the event loop takes the next event and spawns its task.
Receive(e) ==
    /\ Len(tasks) < MaxEvents
    /\ tasks' = Append(tasks, NewTask(e))
    /\ UNCHANGED cache

\* process, first statement: bot.cache.update(&event).
CacheUpdate(i) ==
    LET t == tasks[i]
        new == Update(cache, t.event)
    IN /\ t.pc = "update"
       /\ cache' = new
       /\ tasks' = [tasks EXCEPT ![i] =
              [t EXCEPT !.pc = IF IsAuto(t) \/ IsCommand(t) THEN "match" ELSE "done",
                        !.prev = PrevOf(cache, t.event),
                        !.lost = IF IsAuto(t) /\ ~OptOutHeld(new) /\ new.members[BotId].cached
                                 THEN LostConnect(cache, new) ELSE {}]]

\* InMemoryCacheExt::voice_channel(id).map(|vc| vc.permission_overwrites)
\*     != Some(&vc.permission_overwrites)
ChannelGuard(c, e) ==
    ~(c.channels[e.id].cached /\ ChannelKind(e.id) = "voice"
        /\ c.channels[e.id].permission_overwrites = e.permission_overwrites)

\* cache.role(id).map(|r| r.permissions) != Some(r.role.permissions)
RoleGuard(c, e) ==
    ~(c.roles[e.id].cached /\ c.roles[e.id].permissions = e.permissions)

\* The match with a stage channel's update taken like a voice channel's.
Resolve_stage(c, e) ==
    CASE e.type = "ChannelUpdate" ->
           IF ~VoiceCapable(e.id) THEN [mode |-> NoMode, skip |-> "kind"]
           ELSE IF ChannelGuard(c, e)
           THEN [mode |-> Mode("Channel", e.id), skip |-> ""]
           ELSE [mode |-> NoMode, skip |-> "unchanged"]
      [] e.type = "MemberUpdate" -> [mode |-> Mode("Member", e.id), skip |-> ""]
      [] e.type = "RoleDelete" -> [mode |-> Mode("Role", NoId), skip |-> ""]
      [] e.type = "RoleUpdate" ->
           IF RoleGuard(c, e)
           THEN [mode |-> Mode("Role", e.id), skip |-> ""]
           ELSE [mode |-> NoMode, skip |-> "unchanged"]
      [] OTHER -> [mode |-> NoMode, skip |-> "other"]

\* The match with a change gate on the member arm like the one the channel and
\* role arms have.
Resolve_member_gate(c, e) ==
    CASE e.type = "ChannelUpdate" ->
           IF ChannelKind(e.id) # "voice" THEN [mode |-> NoMode, skip |-> "kind"]
           ELSE IF ChannelGuard(c, e)
           THEN [mode |-> Mode("Channel", e.id), skip |-> ""]
           ELSE [mode |-> NoMode, skip |-> "unchanged"]
      [] e.type = "MemberUpdate" ->
           IF ~(c.members[e.id].cached /\ c.members[e.id].roles = e.roles)
           THEN [mode |-> Mode("Member", e.id), skip |-> ""]
           ELSE [mode |-> NoMode, skip |-> "unchanged"]
      [] e.type = "RoleDelete" -> [mode |-> Mode("Role", NoId), skip |-> ""]
      [] e.type = "RoleUpdate" ->
           IF RoleGuard(c, e)
           THEN [mode |-> Mode("Role", e.id), skip |-> ""]
           ELSE [mode |-> NoMode, skip |-> "unchanged"]
      [] OTHER -> [mode |-> NoMode, skip |-> "other"]

\* The match of process: the Permission an event resolves to, or why none.
Resolve(c, e) ==
    CASE e.type = "ChannelUpdate" ->
           IF ChannelKind(e.id) # "voice" THEN [mode |-> NoMode, skip |-> "kind"]
           ELSE IF ChannelGuard(c, e)
           THEN [mode |-> Mode("Channel", e.id), skip |-> ""]
           ELSE [mode |-> NoMode, skip |-> "unchanged"]
      [] e.type = "MemberUpdate" -> [mode |-> Mode("Member", e.id), skip |-> ""]
      [] e.type = "RoleDelete" -> [mode |-> Mode("Role", NoId), skip |-> ""]
      [] e.type = "RoleUpdate" ->
           IF RoleGuard(c, e)
           THEN [mode |-> Mode("Role", e.id), skip |-> ""]
           ELSE [mode |-> NoMode, skip |-> "unchanged"]
      [] OTHER -> [mode |-> NoMode, skip |-> "other"]

\* A prune command goes on to its search without acknowledging the interaction.
Match_noack(i) ==
    LET t == tasks[i]
        r == Resolve(cache, t.event)
    IN /\ t.pc = "match"
       /\ tasks' = [tasks EXCEPT ![i] =
              [t EXCEPT !.mode = r.mode, !.skip = r.skip,
                        !.pc = IF IsCommand(t) THEN "errorable"
                               ELSE IF r.mode = NoMode THEN "done" ELSE "act"]]
       /\ UNCHANGED cache

\* process, the match on the event.
Match(i) ==
    LET t == tasks[i]
        r == Resolve(cache, t.event)
    IN /\ t.pc = "match"
       /\ tasks' = [tasks EXCEPT ![i] =
              [t EXCEPT !.mode = r.mode, !.skip = r.skip,
                        !.pc = IF IsCommand(t) THEN "ack"
                               ELSE IF r.mode = NoMode THEN "done" ELSE "act"]]
       /\ UNCHANGED cache

\* Permission::act, the opt-out check.
IsDisabled(i) ==
    LET t == tasks[i]
        d == is_disabled(cache)
    IN /\ t.pc = "act"
       /\ tasks' = [tasks EXCEPT ![i] =
              [t EXCEPT !.checked = TRUE, !.optout = OptOutHeld(cache),
                        !.bot_cached = cache.members[BotId].cached,
                        !.pc = CASE d = "panic" -> "panicked"
                                 [] d = "yes" -> "done"
                                 [] OTHER -> "search"]]
       /\ UNCHANGED cache

\* The search of a Permission with the role scope searching the whole guild
\* without the role as a filter.
SearchFor_nofilter(c, mode) ==
    CASE mode.kind = "Channel" -> SearchChannel(c, mode.id, NoRoleFilter)
      [] mode.kind = "Member" -> SearchUser(c, mode.id)
      [] OTHER -> SearchGuild(c, NoRoleFilter)

\* The search a Permission runs for its mode.
SearchFor(c, mode) ==
    CASE mode.kind = "Channel" -> SearchChannel(c, mode.id, NoRoleFilter)
      [] mode.kind = "Member" -> SearchUser(c, mode.id)
      [] OTHER -> SearchGuild(c, mode.id)

\* A task after its search returned `r`: the candidates go to Bot::remove, a
\* panic ends the task, an error or an empty list ends the sweep.
Searched(t, c, r, via, after) ==
    [t EXCEPT !.searched = r.searched, !.eligible = Violators(c), !.via = via,
              !.seen = IF r.searched THEN c ELSE t.seen,
              !.optout = IF IsCommand(t) THEN OptOutHeld(c) ELSE t.optout,
              !.bot_cached = IF IsCommand(t) THEN c.members[BotId].cached
                             ELSE t.bot_cached,
              !.candidates = r.users,
              !.response = IF r.tag = "Ok" THEN t.response ELSE r.tag,
              !.pc = CASE r.tag = "Panic" -> "panicked"
                       [] r.tag = "Ok" /\ r.users # <<>> -> "remove"
                       [] OTHER -> after]

\* The search asks is_disabled again and gives the sweep up when the opt-out
\* is in force by then.
Search_recheck(i) ==
    LET t == tasks[i]
    IN /\ t.pc = "search"
       /\ tasks' = [tasks EXCEPT ![i] =
              IF is_disabled(cache) = "yes" THEN [t EXCEPT !.pc = "done"]
              ELSE Searched(t, cache, SearchFor(cache, t.mode), "search", "done")]
       /\ UNCHANGED cache

\* Permission::act, the search (search.rs).
Search(i) ==
    LET t == tasks[i]
    IN /\ t.pc = "search"
       /\ tasks' = [tasks EXCEPT ![i] =
              Searched(t, cache, SearchFor(cache, t.mode), "search", "done")]
       /\ UNCHANGED cache

\* The member sweep of prune.rs.
Prune(i) ==
    LET t == tasks[i]
    IN /\ t.pc = "search"
       /\ t.mode.kind = "Member"
       /\ tasks' = [tasks EXCEPT ![i] =
              Searched(t, cache, PruneUser(cache, t.mode.id), "prune", "done")]
       /\ UNCHANGED cache

\* Remove looks at the cache again and issues calls only for the candidates
\* who are still violators.
Remove_recheck(i) ==
    LET t == tasks[i]
        StillViolator(u) == u \in Violators(cache)
        still == SelectSeq(t.candidates, StillViolator)
    IN /\ t.pc = "remove"
       /\ tasks' = [tasks EXCEPT ![i] =
              [t EXCEPT !.calls = still, !.pending = DOMAIN still,
                        !.pc = IF still # <<>> THEN "join"
                               ELSE IF IsCommand(t) THEN "respond" ELSE "done"]]
       /\ UNCHANGED cache

\* Bot::remove: one removal call per user, all in flight together.
Remove(i) ==
    LET t == tasks[i]
    IN /\ t.pc = "remove"
       /\ tasks' = [tasks EXCEPT ![i] =
              [t EXCEPT !.calls = t.candidates, !.pending = DOMAIN t.candidates,
                        !.stale = Range(t.candidates) \ Violators(cache) # {},
                        !.pc = "join"]]
       /\ UNCHANGED cache

\* event/permission.rs, Permission::act: every removal call is spawned as a
\* task of its own, and act returns without waiting for any of them.
Spawn(i) ==
    LET t == tasks[i]
    IN /\ t.pc = "remove"
       /\ IsAuto(t)
       /\ tasks' = [tasks EXCEPT ![i] =
              [t EXCEPT !.calls = t.candidates, !.pending = DOMAIN t.candidates,
                        !.stale = Range(t.candidates) \ Violators(cache) # {},
                        !.pc = "done"]]
       /\ UNCHANGED cache

\* The count grows with every call that returns, failed ones included.
Tally_all(n, ok) == n + 1

\* The count remove returns: one more for a call that succeeded.
Tally(n, ok) == n + (IF ok THEN 1 ELSE 0)

\* A removal call that succeeds clears the user's cached voice state.
Return_clears(i, k, ok) ==
    LET t == tasks[i]
    IN /\ t.pc \in {"join", "done"}
       /\ k \in t.pending
       /\ tasks' = [tasks EXCEPT ![i] =
              [t EXCEPT !.pending = t.pending \ {k},
                        !.succeeded = Tally(t.succeeded, ok),
                        !.failed = t.failed + (IF ok THEN 0 ELSE 1),
                        !.pc = IF t.pc = "done" THEN "done"
                               ELSE IF t.pending # {k} THEN "join"
                               ELSE IF IsCommand(t) THEN "respond" ELSE "done"]]
       /\ cache' = IF ok THEN [cache EXCEPT !.voice_states[t.calls[k]] = NoVoiceState]
                   ELSE cache

\* A failed removal call makes the sweep give up the calls still in flight.
Return_abort(i, k, ok) ==
    LET t == tasks[i]
    IN /\ t.pc \in {"join", "done"}
       /\ k \in t.pending
       /\ tasks' = [tasks EXCEPT ![i] =
              [t EXCEPT !.pending = IF ok THEN t.pending \ {k} ELSE {},
                        !.succeeded = Tally(t.succeeded, ok),
                        !.failed = t.failed + (IF ok THEN 0 ELSE 1),
                        !.pc = IF t.pc = "done" THEN "done"
                               ELSE IF ok /\ t.pending # {k} THEN "join"
                               ELSE IF IsCommand(t) THEN "respond" ELSE "done"]]
       /\ UNCHANGED cache

\* The sweep waits until as many calls have succeeded as it has candidates.
Return_stuck(i, k, ok) ==
    LET t == tasks[i]
        over == t.pending = {k} /\ Tally(t.succeeded, ok) = Len(t.calls)
    IN /\ t.pc \in {"join", "done"}
       /\ k \in t.pending
       /\ tasks' = [tasks EXCEPT ![i] =
              [t EXCEPT !.pending = t.pending \ {k},
                        !.succeeded = Tally(t.succeeded, ok),
                        !.failed = t.failed + (IF ok THEN 0 ELSE 1),
                        !.pc = IF t.pc = "done" THEN "done"
                               ELSE IF ~over THEN "join"
                               ELSE IF IsCommand(t) THEN "respond" ELSE "done"]]
       /\ UNCHANGED cache

\* One removal call returns, successfully or not; a sweep that waits for its
\* calls is over when the last one has.
Return(i, k, ok) ==
    LET t == tasks[i]
    IN /\ t.pc \in {"join", "done"}
       /\ k \in t.pending
       /\ tasks' = [tasks EXCEPT ![i] =
              [t EXCEPT !.pending = t.pending \ {k},
                        !.succeeded = Tally(t.succeeded, ok),
                        !.failed = t.failed + (IF ok THEN 0 ELSE 1),
                        !.pc = IF t.pc = "done" THEN "done"
                               ELSE IF t.pending # {k} THEN "join"
                               ELSE IF IsCommand(t) THEN "respond" ELSE "done"]]
       /\ UNCHANGED cache

\* run drops the acknowledgement's error and goes on.
Ack_ignored(i, ok) ==
    LET t == tasks[i]
    IN /\ t.pc = "ack"
       /\ tasks' = [tasks EXCEPT ![i] = [t EXCEPT !.acked = ok, !.pc = "errorable"]]
       /\ UNCHANGED cache

\* Interaction::ack: the deferred response; on an error run returns it.
Ack(i, ok) ==
    LET t == tasks[i]
    IN /\ t.pc = "ack"
       /\ tasks' = [tasks EXCEPT ![i] =
              [t EXCEPT !.acked = ok, !.pc = IF ok THEN "errorable" ELSE "failed"]]
       /\ UNCHANGED cache

\* errorable consulting the opt-out like the auto-trigger path does.
Errorable_optout(c, e) ==
    IF MOVE_MEMBERS \notin e.caller_permissions THEN Refused("RequiresMoveMembers")
    ELSE IF is_disabled(c) # "no" THEN Refused("Disabled")
    ELSE IF e.channel_id # NoId THEN SearchChannel(c, e.channel_id, NoRoleFilter)
    ELSE SearchGuild(c, NoRoleFilter)

\* errorable searches without looking at the caller's permissions.
Errorable_anyone(c, e) ==
    IF e.channel_id # NoId THEN SearchChannel(c, e.channel_id, NoRoleFilter)
    ELSE SearchGuild(c, NoRoleFilter)

\* Prune::errorable (command/prune.rs): the caller's permission, then the
\* channel search when a channel is resolved, else the guild search; the
\* command has no role option.
Errorable(c, e) ==
    IF MOVE_MEMBERS \notin e.caller_permissions THEN Refused("RequiresMoveMembers")
    ELSE IF e.channel_id # NoId THEN SearchChannel(c, e.channel_id, NoRoleFilter)
    ELSE SearchGuild(c, NoRoleFilter)

\* Prune::errorable (commands/prune.rs): the same with the resolved role as
\* the search's role filter.
ErrorableRole(c, e) ==
    IF MOVE_MEMBERS \notin e.caller_permissions THEN Refused("RequiresMoveMembers")
    ELSE IF e.channel_id # NoId THEN SearchChannel(c, e.channel_id, e.role_id)
    ELSE SearchGuild(c, e.role_id)

\* Prune::run after the acknowledgement (command/prune.rs).
Command(i) ==
    LET t == tasks[i]
    IN /\ t.pc = "errorable"
       /\ t.event.role_id = NoRoleFilter
       /\ tasks' = [tasks EXCEPT ![i] =
              Searched(t, cache, Errorable(cache, t.event), "command", "respond")]
       /\ UNCHANGED cache

\* Prune::run after the acknowledgement (commands/prune.rs).
CommandRole(i) ==
    LET t == tasks[i]
    IN /\ t.pc = "errorable"
       /\ tasks' = [tasks EXCEPT ![i] =
              Searched(t, cache, ErrorableRole(cache, t.event), "commands", "respond")]
       /\ UNCHANGED cache

\* Prune::run, update_response: the count, or the error's text.
Respond(i) ==
    LET t == tasks[i]
    IN /\ t.pc = "respond"
       /\ tasks' = [tasks EXCEPT ![i] =
              [t EXCEPT !.response = IF t.response = "" THEN "Pruned" ELSE t.response,
                        !.count = IF t.response = "" /\ t.via = "command"
                                  THEN t.succeeded ELSE NoCount,
                        !.edits = t.edits + 1,
                        !.pc = "done"]]
       /\ UNCHANGED cache

\* ------------------------------------------------------------ specification

\* The cache once the guild has been received: every role and every user's
\* member cached, both users connected, r1 named no-auto-prune and granting
\* CONNECT.  What arrives out of order varies: the bot's own member and the
\* channel v2 may not be cached yet.
InitCaches ==
    { [channels |-> [ch \in ChannelIds |->
                        IF ch = "v2" /\ ~v2 THEN NoChannel ELSE CachedChannel(<<>>)],
       roles |-> [r \in RoleIds |->
                     IF r = GuildId THEN CachedRole(everyone, "@everyone")
                     ELSE CachedRole({CONNECT}, NoAutoPrune)],
       members |-> [u \in UserIds |->
                       CASE u = BotId -> bot
                         [] u = "u1" -> CachedMember({})
                         [] OTHER -> CachedMember({"r1"})],
       voice_states |-> [u \in UserIds |->
                            CASE u = BotId -> NoVoiceState
                              [] u = "u1" -> CachedVoiceState("v1", TRUE, {})
                              [] OTHER -> CachedVoiceState(where, TRUE, {"r1"})]] :
        v2 \in BOOLEAN,
        everyone \in {{CONNECT, MOVE_MEMBERS}, {MOVE_MEMBERS}},
        bot \in {NoMember, CachedMember({}), CachedMember({"r1"})},
        where \in {"v1", "v2"} }

Init ==
    /\ cache \in InitCaches
    /\ tasks = <<>>

Next ==
    \/ \E e \in Events : Receive(e)
    \/ \E i \in TaskIds : CacheUpdate(i)
    \/ \E i \in TaskIds : Match(i)
    \/ \E i \in TaskIds : IsDisabled(i)
    \/ \E i \in TaskIds : Search(i)
    \/ \E i \in TaskIds : Prune(i)
    \/ \E i \in TaskIds : Remove(i)
    \/ \E i \in TaskIds : Spawn(i)
    \/ \E i \in TaskIds : \E k \in tasks[i].pending : \E ok \in BOOLEAN : Return(i, k, ok)
    \/ \E i \in TaskIds : \E ok \in BOOLEAN : Ack(i, ok)
    \/ \E i \in TaskIds : Command(i)
    \/ \E i \in TaskIds : CommandRole(i)
    \/ \E i \in TaskIds : Respond(i)

Spec == Init /\ [][Next]_vars

\* Events taken in turn: the event loop takes the next event only when the
\* tasks of the earlier ones have ended and their removal calls have returned.
\* The runs are runs of Spec with the steps of different tasks not interleaved;
\* they are long enough for a sweep, the voice state updates that follow it and
\* a second sweep.
MaxInTurn == 3

InTurnEvents ==
    { PruneCommand("v1", NoRoleFilter, {MOVE_MEMBERS}),
      PruneCommand(NoId, NoRoleFilter, {MOVE_MEMBERS}),
      VoiceStateUpdate("u1", NoId, FALSE, {}),
      VoiceStateUpdate("u2", NoId, FALSE, {}),
      MemberUpdate("u1", {}),
      ChannelUpdate("v1", <<DenyConnectEveryone>>) }

ReceiveInTurn(e) ==
    /\ Len(tasks) < MaxInTurn
    /\ \A i \in TaskIds :
          /\ tasks[i].pc \in {"done", "panicked", "failed"}
          /\ tasks[i].pending = {}
    /\ tasks' = Append(tasks, NewTask(e))
    /\ UNCHANGED cache

NextInTurn ==
    \/ \E e \in InTurnEvents : ReceiveInTurn(e)
    \/ \E i \in TaskIds : CacheUpdate(i)
    \/ \E i \in TaskIds : Match(i)
    \/ \E i \in TaskIds : IsDisabled(i)
    \/ \E i \in TaskIds : Search(i)
    \/ \E i \in TaskIds : Prune(i)
    \/ \E i \in TaskIds : Remove(i)
    \/ \E i \in TaskIds : Spawn(i)
    \/ \E i \in TaskIds : \E k \in tasks[i].pending : \E ok \in BOOLEAN : Return(i, k, ok)
    \/ \E i \in TaskIds : \E ok \in BOOLEAN : Ack(i, ok)
    \/ \E i \in TaskIds : Command(i)
    \/ \E i \in TaskIds : CommandRole(i)
    \/ \E i \in TaskIds : Respond(i)

SpecInTurn == Init /\ [][NextInTurn]_vars

\* ------------------------------------------------------------------ claims

\* The task's match has run.
Matched(t) == t.pc \notin {"update", "match"}

\* The task is over: it returned or it panicked.
Ended(t) == t.pc \in {"done", "panicked", "failed"}

IsChannelUpdate(t) == t.event.type = "ChannelUpdate"

IsRoleUpdate(t) == t.event.type = "RoleUpdate"

\* The event's overwrite list is the one cached before the task's update.
SameAsCached(t) ==
    t.prev.cached /\ t.prev.permission_overwrites = t.event.permission_overwrites

\* C1: the skip decision of a channel or role update compares the incoming
\* value with the value the cache held before this update was applied: the
\* update is skipped as unchanged exactly when the two are equal.
C1_GateComparesWithPreUpdateValue ==
    \A i \in TaskIds :
        LET t == tasks[i]
        IN /\ (Matched(t) /\ IsChannelUpdate(t) /\ ChannelKind(t.event.id) = "voice")
                 => ((t.skip = "unchanged") <=> SameAsCached(t))
           /\ (Matched(t) /\ IsRoleUpdate(t))
                 => ((t.skip = "unchanged")
                        <=> (t.prev.cached /\ t.prev.permissions = t.event.permissions))

\* C2: when an update makes a user connected to a monitored channel lose
\* CONNECT while auto-enforcement is enabled, the task of that update has
\* issued a removal call for that user by the time it ends.
C2_LostConnectIsRemoved ==
    \A i \in TaskIds :
        LET t == tasks[i]
        IN (IsAuto(t) /\ Ended(t)) => \A u \in t.lost : u \in Range(t.calls)

\* C3: every removal call is for a user who, when the sweep's search ran, was
\* connected to a monitored channel and denied CONNECT there.
C3_CallsOnlyForViolators ==
    \A i \in TaskIds : \A k \in DOMAIN tasks[i].calls :
        tasks[i].calls[k] \in tasks[i].eligible

\* C4: an auto-triggered task that finds the bot's cached member holding a role
\* named no-auto-prune runs no search, issues no removal call and ends.
C4_OptOutSuppressesAutoSweep ==
    \A i \in TaskIds :
        LET t == tasks[i]
        IN (IsAuto(t) /\ t.checked /\ t.optout)
              => (t.pc = "done" /\ ~t.searched /\ t.candidates = <<>> /\ t.calls = <<>>)

\* C4 witness: an opted-out member sweep has ended while its user is a violator.
C4_Witness ==
    \E i \in TaskIds :
        /\ IsAuto(tasks[i]) /\ tasks[i].checked /\ tasks[i].optout
        /\ tasks[i].pc = "done"
        /\ tasks[i].mode.kind = "Member"
        /\ tasks[i].mode.id \in Violators(cache)

\* C5: when the bot's member is not cached at the start of an auto-triggered
\* scope, the opt-out check returns normally and the scope ends without a
\* search or a removal call.
C5_AbsentBotMemberReturnsNormally ==
    \A i \in TaskIds :
        LET t == tasks[i]
        IN (IsAuto(t) /\ t.checked /\ ~t.bot_cached)
              => (t.pc = "done" /\ ~t.searched /\ t.calls = <<>>)

\* C6: a prune command whose caller may move members and whose acknowledgement
\* succeeded runs its search whatever the opt-out: held or not, bot member
\* cached or not.
C6_CommandIgnoresOptOut ==
    \A i \in TaskIds :
        LET t == tasks[i]
        IN (/\ IsCommand(t)
            /\ t.pc \in {"remove", "join", "respond", "done", "panicked"}
            /\ MOVE_MEMBERS \in t.event.caller_permissions)
              => t.searched

\* C6 witness: a command has issued a removal call while the opt-out was held.
C6_Witness ==
    \E i \in TaskIds :
        /\ IsCommand(tasks[i]) /\ tasks[i].searched /\ tasks[i].optout
        /\ tasks[i].calls # <<>>

\* C7: a channel update whose overwrite list is the one cached before the
\* update produces no scope, no search and no removal call.
C7_UnchangedOverwritesNoScope ==
    \A i \in TaskIds :
        LET t == tasks[i]
        IN (Matched(t) /\ IsChannelUpdate(t) /\ SameAsCached(t))
              => (t.mode = NoMode /\ ~t.searched /\ t.calls = <<>>)

\* C8: a channel update for a voice channel that was not cached before the
\* update produces the scope Channel(id).
C8_UncachedChannelNotSkipped ==
    \A i \in TaskIds :
        LET t == tasks[i]
        IN (/\ Matched(t) /\ IsChannelUpdate(t)
            /\ ChannelKind(t.event.id) = "voice" /\ ~t.prev.cached)
              => t.mode = Mode("Channel", t.event.id)

\* C9: a channel update for a voice channel whose overwrite list differs from
\* the one cached before the update produces the scope Channel(id), and the
\* sweep's candidates are users connected to that channel.
C9_ChangedOverwritesChannelScope ==
    \A i \in TaskIds :
        LET t == tasks[i]
        IN (/\ Matched(t) /\ IsChannelUpdate(t)
            /\ ChannelKind(t.event.id) = "voice"
            /\ t.prev.cached /\ ~SameAsCached(t))
              => /\ t.mode = Mode("Channel", t.event.id)
                 /\ \A k \in DOMAIN t.calls :
                        cache.voice_states[t.calls[k]].channel_id = t.event.id

C11_RoleGateOnPreUpdateBitmask ==
    \A i \in TaskIds :
        LET t == tasks[i]
            same == t.prev.permissions = t.event.permissions
        IN (Matched(t) /\ IsRoleUpdate(t) /\ t.prev.cached)
              => /\ same => (t.mode = NoMode /\ ~t.searched /\ t.calls = <<>>)
                 /\ ~same => t.mode # NoMode

IsMemberUpdate(t) == t.event.type = "MemberUpdate"

\* C12: every member update is accepted: its match produces the scope
\* Member(user id) and never skips, whatever the member's cached roles were.
C12_MemberUpdateAlwaysAccepted ==
    \A i \in TaskIds :
        LET t == tasks[i]
        IN (Matched(t) /\ IsMemberUpdate(t))
              => (t.mode = Mode("Member", t.event.id) /\ t.skip = "")

\* C12 witness: a member update that leaves the cached roles as they were has
\* been accepted and has run its search.
C12_Witness ==
    \E i \in TaskIds :
        /\ IsMemberUpdate(tasks[i]) /\ tasks[i].searched
        /\ tasks[i].mode = Mode("Member", tasks[i].event.id)
        /\ tasks[i].seen.members[tasks[i].event.id].roles = tasks[i].event.roles
        /\ tasks[i].event.roles = GatewayRoles(tasks[i].event.id)

\* The user's voice state, as the cache `c` holds it, is in a channel of kind
\* voice.
InVoiceKind(c, u) ==
    c.voice_states[u].cached /\ ChannelKind(c.voice_states[u].channel_id) = "voice"

\* The user counts as a holder of the role for a filtered search: the role is
\* the default role, or the voice state's member lists it, or the voice state
\* carries no member.
HoldsRole(c, u, role_id) ==
    \/ role_id = GuildId
    \/ ~c.voice_states[u].has_member
    \/ role_id \in c.voice_states[u].member_roles

\* The task's search returned a list of users (it did not fail or panic).
ReturnedOk(t) == t.searched /\ t.response = "" /\ t.pc # "panicked"

\* The task is an accepted role update.
AcceptedRoleUpdate(t) == Matched(t) /\ IsRoleUpdate(t) /\ t.mode # NoMode

IsRoleDelete(t) == t.event.type = "RoleDelete"

\* The cache with the role gone from every member's role list.
Forget(c, role_id) ==
    [c EXCEPT !.members =
        [u \in UserIds |-> [c.members[u] EXCEPT !.roles = @ \ {role_id}]]]

\* The task passed the opt-out check with auto-enforcement enabled.
Enabled(t) == t.checked /\ t.bot_cached /\ ~t.optout

\* C14: a role deletion is never skipped and resolves to the guild scope with
\* no role filter; when its task has ended with auto-enforcement enabled,
\* every user connected to a monitored voice channel who lacks CONNECT with
\* the role gone has been a candidate of its sweep.
C14_RoleDeleteSweepsWholeGuild ==
    \A i \in TaskIds :
        LET t == tasks[i]
            gone == Forget(t.seen, t.event.id)
        IN /\ (Matched(t) /\ IsRoleDelete(t)) => t.mode = Mode("Role", NoId)
           /\ (/\ IsRoleDelete(t) /\ Ended(t) /\ Enabled(t) /\ t.searched
               /\ ~t.seen.roles[t.event.id].cached)
                 => \A u \in Violators(gone) :
                        InVoiceKind(gone, u) => u \in Range(t.candidates)

\* The oracle answers for the bot in the channel and the answer includes
\* MOVE_MEMBERS.
HoldsManagement(c, channel_id) ==
    /\ in_channel(c, BotId, channel_id).ok
    /\ MOVE_MEMBERS \in in_channel(c, BotId, channel_id).permissions

SweptChannel(t) ==
    IF IsAuto(t) /\ t.mode.kind = "Channel" THEN t.mode.id
    ELSE IF IsCommand(t) /\ t.event.role_id = NoRoleFilter THEN t.event.channel_id
    ELSE NoId

\* The users with a voice state in the channel whom the oracle denies CONNECT.
DeniedIn(c, channel_id) ==
    { u \in UserIds :
        /\ c.voice_states[u].cached
        /\ c.voice_states[u].channel_id = channel_id
        /\ DeniedConnect(c, u, channel_id) }

\* The task's search was a channel sweep of a monitored voice channel.
MonitoredChannelSweep(t) ==
    /\ t.searched
    /\ SweptChannel(t) # NoId
    /\ ChannelKind(SweptChannel(t)) = "voice"
    /\ HoldsManagement(t.seen, SweptChannel(t))

\* C16: the sweep of a monitored voice channel X has as candidates exactly the
\* users with a voice state in X whom the oracle denies CONNECT there, and a
\* removal call is issued for each of them and for nobody else.
C16_ChannelSweepRemovesExactlyDenied ==
    \A i \in TaskIds :
        LET t == tasks[i]
        IN MonitoredChannelSweep(t)
              => /\ Range(t.candidates) = DeniedIn(t.seen, SweptChannel(t))
                 /\ t.pc \in {"join", "respond", "done"} => t.calls = t.candidates
                 /\ Ended(t) => Range(t.calls) = DeniedIn(t.seen, SweptChannel(t))

\* The task is a prune command searched with a role filter that is not the
\* default role.
RoleFilteredCommand(t) ==
    /\ IsCommand(t) /\ t.searched
    /\ t.event.role_id \notin {NoRoleFilter, GuildId}

\* C17: with a role filter R that is not the default role, every user the
\* command's search returns is connected, is denied CONNECT in their channel
\* and holds R according to an available member record; a user without R, or
\* without a member record, is not returned.
C17_RoleFilterReturnsOnlyHolders ==
    \A i \in TaskIds :
        LET t == tasks[i]
        IN RoleFilteredCommand(t)
              => \A k \in DOMAIN t.candidates :
                    LET state == t.seen.voice_states[t.candidates[k]]
                    IN /\ state.cached
                       /\ DeniedConnect(t.seen, t.candidates[k], state.channel_id)
                       /\ state.has_member
                       /\ t.event.role_id \in state.member_roles

\* The task is a prune command that searched the channel named by its channel
\* option.
ChannelCommand(t) == IsCommand(t) /\ t.searched /\ t.event.channel_id # NoId

\* C18: a prune command whose channel option names a channel that is not a
\* voice channel gets the error NotAVoiceChannel, also when the channel is
\* unmonitored, has no candidates and issues no removal call.
C18_NonVoiceChannelIsNotAVoiceChannel ==
    \A i \in TaskIds :
        LET t == tasks[i]
        IN (ChannelCommand(t) /\ ChannelKind(t.event.channel_id) # "voice")
              => /\ t.response = "NotAVoiceChannel"
                 /\ t.candidates = <<>>
                 /\ t.calls = <<>>
                 /\ t.pc \in {"respond", "done"}

\* C18 witness: a command on the text channel has answered NotAVoiceChannel
\* while the channel was unmonitored too.
C18_Witness ==
    \E i \in TaskIds :
        /\ ChannelCommand(tasks[i]) /\ tasks[i].pc = "done"
        /\ ChannelKind(tasks[i].event.channel_id) = "text"
        /\ ~monitored(tasks[i].seen, tasks[i].event.channel_id)
        /\ tasks[i].response = "NotAVoiceChannel"

\* The channel a task's channel search was for: the scope Channel(X) of an
\* auto-triggered task or the channel option of a prune command; NoId for any
\* other task.
SearchedChannel(t) ==
    IF IsAuto(t) /\ t.mode.kind = "Channel" THEN t.mode.id
    ELSE IF IsCommand(t) THEN t.event.channel_id
    ELSE NoId

\* The task's channel search was for a cached voice channel in which the bot
\* lacks MOVE_MEMBERS.
UnmonitoredChannelSearch(t) ==
    /\ t.searched
    /\ SearchedChannel(t) # NoId
    /\ ChannelKind(SearchedChannel(t)) = "voice"
    /\ t.seen.channels[SearchedChannel(t)].cached
    /\ ~HoldsManagement(t.seen, SearchedChannel(t))

\* C19: a channel search on a voice channel in which the bot lacks
\* MOVE_MEMBERS yields Unmonitored and no candidate: a command goes on to
\* answer with the unmonitored text, an auto-triggered sweep ends at once, and
\* neither issues a removal call.
C19_UnmonitoredChannelYieldsUnmonitored ==
    \A i \in TaskIds :
        LET t == tasks[i]
        IN UnmonitoredChannelSearch(t)
              => /\ t.response = "Unmonitored"
                 /\ t.candidates = <<>>
                 /\ t.calls = <<>>
                 /\ IsCommand(t) => t.pc \in {"respond", "done"}
                 /\ IsAuto(t) => t.pc = "done"

\* C19 witness: an auto-triggered channel sweep has ended on Unmonitored while
\* a user connected to the channel was denied CONNECT.
C19_Witness ==
    \E i \in TaskIds :
        /\ IsAuto(tasks[i]) /\ UnmonitoredChannelSearch(tasks[i])
        /\ tasks[i].pc = "done"
        /\ DeniedIn(tasks[i].seen, SearchedChannel(tasks[i])) # {}

\* The task's search was a guild search: the role scope of an auto-triggered
\* task, or a prune command without a channel option.
GuildSearch(t) ==
    /\ t.searched
    /\ \/ IsAuto(t) /\ t.mode.kind = "Role"
       \/ IsCommand(t) /\ t.event.channel_id = NoId

\* The role filter the task's search was given.
FilterOf(t) == IF IsAuto(t) THEN t.mode.id ELSE t.event.role_id

\* The candidates of one channel: the users connected to it whom the oracle
\* denies CONNECT and who pass the role filter; nobody when the channel is
\* not a voice channel or the bot lacks MOVE_MEMBERS in it.
ChannelCandidates(c, channel_id, role_id) ==
    IF ChannelKind(channel_id) = "voice" /\ HoldsManagement(c, channel_id)
    THEN { u \in DeniedIn(c, channel_id) :
             role_id = NoRoleFilter \/ HoldsRole(c, u, role_id) }
    ELSE {}

\* C20: a guild search returns exactly the union of the candidates of the
\* guild's monitored voice channels; an unmonitored channel or a channel that
\* is not a voice channel adds nothing and does not make the search fail.
C20_GuildSearchIsUnionOverMonitored ==
    \A i \in TaskIds :
        LET t == tasks[i]
        IN GuildSearch(t)
              => /\ t.response \in {"", "Pruned"}
                 /\ Range(t.candidates)
                       = UNION { ChannelCandidates(t.seen, ch, FilterOf(t)) :
                                   ch \in ChannelIds }

\* -------------------------------------------------------------- C21 .. C30

\* The task ran a member search: the scope Member(u) of a member update.
MemberSearch(t) == IsAuto(t) /\ t.searched /\ t.mode.kind = "Member"

\* C21: a member search yields its single user exactly when the cache it read
\* holds a voice state of the user in a monitored channel where the oracle
\* denies the user Connect; it yields nothing when the user is not connected,
\* the channel is unmonitored, or the user has Connect.
C21_MemberSearchYieldsViolator ==
    \A i \in TaskIds :
        LET t == tasks[i]
        IN MemberSearch(t) =>
              Range(t.candidates) =
                  IF t.mode.id \in Violators(t.seen) THEN {t.mode.id} ELSE {}

\* The task's removal calls have all returned.
AllReturned(t) == t.calls # <<>> /\ t.pending = {}

\* C22: a sweep issues one removal call per candidate, neither fewer because
\* another call failed nor more because one is repeated: the calls issued
\* are the candidates, and once none is in flight every one of them has returned
\* exactly once, as a success or as a failure.
C22_OneCallPerCandidate ==
    \A i \in TaskIds :
        LET t == tasks[i]
        IN /\ t.calls # <<>> => t.calls = t.candidates
           /\ t.pending \subseteq DOMAIN t.calls
           /\ AllReturned(t) => t.succeeded + t.failed = Len(t.calls)

\* C22 witness: a sweep of two candidates is over, one call failed and the
\* other succeeded.
C22_Witness ==
    \E i \in TaskIds :
        /\ AllReturned(tasks[i])
        /\ Len(tasks[i].candidates) = 2
        /\ tasks[i].failed = 1
        /\ tasks[i].succeeded = 1

\* The command was answered by command/prune.rs with the count of a sweep.
ReportedCount(t) == IsCommand(t) /\ t.pc = "done" /\ t.count # NoCount

CommandScope(t) ==
    IF t.event.channel_id # NoId THEN {t.event.channel_id}
    ELSE Range(guild_channels)

\* C24: a prune command is acknowledged before it searches, searches (its
\* channel when it has a channel option, the guild otherwise) before it issues
\* a removal call, and edits its response once, with the count or the error's
\* text, after its removal calls have returned; no removal call precedes the
\* acknowledgement.
C24_CommandStepsInOrder ==
    \A i \in TaskIds :
        LET t == tasks[i]
        IN IsCommand(t) =>
              /\ t.searched => t.acked
              /\ t.calls # <<>> => t.acked /\ t.searched
              /\ t.searched /\ t.response \in {"", "Pruned"} /\ t.pc # "panicked" =>
                    Range(t.candidates) =
                        UNION { ChannelCandidates(t.seen, ch, FilterOf(t)) :
                                    ch \in CommandScope(t) }
              /\ t.edits = (IF t.pc = "done" THEN 1 ELSE 0)
              /\ t.edits = 1 => /\ t.acked
                                /\ t.calls = t.candidates
                                /\ t.pending = {}
                                /\ t.response # ""

\* C24 witness: an acknowledged prune command for a channel searched it,
\* issued a removal call and edited its response after the call returned.
C24_Witness ==
    \E i \in TaskIds :
        /\ IsCommand(tasks[i])
        /\ tasks[i].event.channel_id # NoId
        /\ tasks[i].calls # <<>>
        /\ tasks[i].edits = 1

\* The sweep has reported its completion: the task of an auto-triggered sweep
\* has ended, the response of a prune command has been edited.
Completed(t) == IF IsCommand(t) THEN t.edits > 0 ELSE t.pc = "done"

\* C25: the removal calls of a sweep are in flight together, and the sweep
\* reports its completion only after every one of them has returned.
C25_CompletionAfterEveryCall ==
    \A i \in TaskIds :
        LET t == tasks[i]
        IN /\ t.calls # <<>> =>
                 Cardinality(t.pending) + t.succeeded + t.failed = Len(t.candidates)
           /\ Completed(t) => t.pending = {}

\* The task is a prune command that swept channel X without a role filter:
\* the sweep Channel(X).
ChannelSweep(t, X) ==
    /\ IsCommand(t) /\ t.searched
    /\ t.event.channel_id = X /\ t.event.role_id = NoRoleFilter

\* The event changes no permission: it is a prune command or reports that a
\* user left voice.
ChangesNoPermission(e) ==
    \/ e.type = "InteractionCreate"
    \/ e.type = "VoiceStateUpdate" /\ e.channel_id = NoId

\* Tasks i and j, taken in turn, swept the same channel one after the other with
\* no permission change in between.
SweptAgain(i, j, X) ==
    /\ i < j
    /\ ChannelSweep(tasks[i], X) /\ ChannelSweep(tasks[j], X)
    /\ \A k \in TaskIds : i < k /\ k < j => ChangesNoPermission(tasks[k].event)

\* C26 as stated: the second of two Channel(X) sweeps run one after the other
\* with no permission change in between issues no removal call.
C26_SecondSweepIssuesNoCall ==
    \A i, j \in TaskIds :
        SweptAgain(i, j, "v1") => tasks[j].calls = <<>>

\* C26 amended: the second sweep issues removal calls only for users the cache
\* it read still holds as connected to X and denied CONNECT, and none for a
\* user whose leaving voice was applied to the cache in between.
C26_SecondSweepCallsStillConnected ==
    \A i, j \in TaskIds :
        SweptAgain(i, j, "v1") =>
            /\ Range(tasks[j].calls) \subseteq DeniedIn(tasks[j].seen, "v1")
            /\ \A k \in TaskIds :
                  i < k /\ k < j /\ tasks[k].event.type = "VoiceStateUpdate"
                      => tasks[k].event.id \notin Range(tasks[j].calls)

\* C26 witness: a sweep of v1 issued a removal call, the user's leaving voice
\* reached the cache, and the second sweep of v1 ended without a removal call.
C26_Witness ==
    \E i, j \in TaskIds :
        /\ SweptAgain(i, j, "v1")
        /\ j = i + 2
        /\ tasks[i].calls # <<>>
        /\ tasks[i + 1].event.id \in Range(tasks[i].calls)
        /\ tasks[j].pc = "done"
        /\ tasks[j].calls = <<>>

\* The command's search could not be completed: a cache entry it expects is
\* missing ("Internal") or the oracle could not answer ("Panic").
SearchFailed(t) == IsCommand(t) /\ t.response \in {"Internal", "Panic"}

\* C27: a prune command whose search fails on a missing cache entry or on an
\* oracle failure gets the error as a value, answers with the generic
\* internal-error text and issues no removal call.
C27_InternalErrorIsReported ==
    \A i \in TaskIds :
        LET t == tasks[i]
        IN SearchFailed(t) =>
              /\ t.pc \in {"respond", "done"}
              /\ t.response = "Internal"
              /\ t.calls = <<>>

\* The removal call of the sweep's only candidate failed.
FailedToRemove(t, u) == t.calls = <<u>> /\ t.pending = {} /\ t.failed = 1

\* The event is a triggering event whose scope covers user u connected to
\* channel X: a member update for u, a channel update that changes the
\* overwrites of X, or an unfiltered prune command for X or for the guild by a
\* caller who holds MOVE_MEMBERS.
Covers(t, u, X) ==
    \/ t.event.type = "MemberUpdate" /\ t.event.id = u
    \/ /\ t.event.type = "ChannelUpdate" /\ t.event.id = X
       /\ t.prev.cached
       /\ t.prev.permission_overwrites # t.event.permission_overwrites
    \/ /\ IsCommand(t) /\ t.acked
       /\ t.event.channel_id \in {X, NoId}
       /\ t.event.role_id = NoRoleFilter
       /\ MOVE_MEMBERS \in t.event.caller_permissions

\* C28: after a failed removal call for a user, the next triggering event
\* whose scope covers the user or the user's channel, taken while the user is
\* still connected to a monitored channel and denied CONNECT (and automatic
\* enforcement is not opted out of), issues a removal call for the user.
C28_NextEventRetriesFailedRemoval ==
    \A i, j \in TaskIds : \A u \in UserIds :
        LET t == tasks[j]
        IN ( /\ j = i + 1 /\ j = Len(tasks)
             /\ FailedToRemove(tasks[i], u)
             /\ Ended(t) /\ t.pending = {}
             /\ u \in Violators(cache)
             /\ Covers(t, u, cache.voice_states[u].channel_id)
             /\ IsAuto(t) => ~OptOutHeld(cache) )
           => u \in Range(t.calls)

\* C29: the opt-out is checked once, when the auto-triggered scope starts,
\* against the cache of that moment.  A sweep that passed the check searches
\* and issues the removal call of every candidate whatever the bot's roles
\* become afterwards; a sweep the check suppressed stays without search and
\* without calls whatever the bot's roles become afterwards.
C29_OptOutCheckedOnceAtStart ==
    \A i \in TaskIds :
        LET t == tasks[i]
        IN IsAuto(t) /\ t.checked =>
              /\ Enabled(t) => t.pc \notin {"update", "match", "act"}
              /\ Enabled(t) /\ Ended(t) =>
                    /\ t.searched
                    /\ t.pc # "panicked" => t.calls = t.candidates
              /\ t.optout /\ t.bot_cached =>
                    t.pc = "done" /\ ~t.searched /\ t.calls = <<>>

\* C29 witness: a sweep passed the check, the bot then got the no-auto-prune
\* role, the search read a cache with the opt-out in force, and the removal
\* calls were issued and have returned.
C29_Witness ==
    \E i \in TaskIds :
        LET t == tasks[i]
        IN /\ IsAuto(t) /\ Enabled(t)
           /\ OptOutHeld(t.seen)
           /\ AllReturned(t)
           /\ t.pc = "done"

\* The task has computed a non-empty candidate set and has gone on to its
\* remediation.
Remediated(t) == t.candidates # <<>> /\ t.pc # "remove"

\* C30: once the candidates of a sweep are computed, the removal call of every
\* candidate is issued and runs to its return, whatever later events do to the
\* cache (CONNECT restored, the user moved, the channel no longer monitored):
\* no candidate is re-checked and no call is dropped.
C30_CandidatesRemovedWithoutRecheck ==
    \A i \in TaskIds :
        LET t == tasks[i]
        IN Remediated(t) =>
              /\ t.calls = t.candidates
              /\ Cardinality(t.pending) + t.succeeded + t.failed = Len(t.candidates)

\* C30 witness: the candidates were violators when the search ran, one of them
\* was no longer a violator when the removal calls were issued, and the calls
\* of all candidates were issued and have returned.
C30_Witness ==
    \E i \in TaskIds :
        LET t == tasks[i]
        IN /\ Remediated(t)
           /\ Range(t.candidates) \subseteq Violators(t.seen)
           /\ t.stale
           /\ t.calls = t.candidates
           /\ AllReturned(t)

\* -------------------------------------------------------------- C31 .. C40

\* The next step of task i, whichever it is.
Step(i) ==
    \/ CacheUpdate(i) \/ Match(i) \/ IsDisabled(i) \/ Search(i) \/ Prune(i)
    \/ Remove(i) \/ Spawn(i) \/ Command(i) \/ CommandRole(i) \/ Respond(i)
    \/ \E ok \in BOOLEAN : Ack(i, ok)
    \/ \E k \in tasks[i].pending : \E ok \in BOOLEAN : Return(i, k, ok)

\* The task has steps left to take.
Running(t) == ~Ended(t) \/ t.pending # {}

\* C31: every event gets a task of its own and nothing orders the tasks: the
\* event loop can take the next event whatever the tasks of the earlier events
\* are doing, and every task that has a step left can take it whatever the
\* other tasks are doing.
C31_TasksRunIndependently ==
    /\ Len(tasks) < MaxEvents => ENABLED (\E e \in Events : Receive(e))
    /\ \A i \in TaskIds : Running(tasks[i]) => ENABLED Step(i)

\* C31 witness: the task of the later event has issued its removal calls while
\* the task of the earlier event has not yet searched.
C31_Witness ==
    /\ Len(tasks) = 2
    /\ tasks[1].pc \in {"act", "search"}
    /\ tasks[2].pending # {}

\* Task i applies its event to the cache in this step.
Ingests(i) ==
    /\ tasks[i].pc = "update"
    /\ tasks'[i].pc # "update"
    /\ cache' = Update(cache, tasks[i].event)

\* C32: the cache changes only in the step that applies an event to it; the
\* gate, the scope resolution, the search and the removal calls, successful
\* ones included, leave it as it is.
C32_OnlyIngestionChangesCache ==
    [][cache' # cache => \E i \in TaskIds : Ingests(i)]_vars

\* C32 witness: a removal call for a user succeeded and has returned, and the
\* cache still holds the user's voice state.
C32_Witness ==
    \E i \in TaskIds :
        LET t == tasks[i]
        IN /\ AllReturned(t)
           /\ t.succeeded = Len(t.calls)
           /\ cache = t.seen
           /\ \A u \in Range(t.calls) : cache.voice_states[u].cached

\* Tasks i and j are for two different events about the same entity, received
\* in this order.
SameEntity(i, j) ==
    /\ i < j
    /\ tasks[i].event.type = tasks[j].event.type
    /\ tasks[i].event.type \in {"ChannelUpdate", "RoleUpdate", "MemberUpdate",
                                "VoiceStateUpdate"}
    /\ tasks[i].event.id = tasks[j].event.id
    /\ tasks[i].event # tasks[j].event

\* The task has applied its event to the cache.
Ingested(t) == t.pc # "update"

\* C33: events are applied to the cache in the order they were received: the
\* later of two events about one entity is never applied before the earlier,
\* and once both are applied the cache holds the later one's value.
C33_UpdatesAppliedInReceiveOrder ==
    \A i, j \in TaskIds :
        SameEntity(i, j) =>
            /\ Ingested(tasks[j]) => Ingested(tasks[i])
            /\ Ingested(tasks[i]) /\ Ingested(tasks[j]) /\ j = Len(tasks)
                  => Update(cache, tasks[j].event) = cache

\* Tasks i and j both issued a removal call for user u, and both searches read
\* the same voice state of u: the same connection.
BothRemove(i, j, u) ==
    /\ i < j
    /\ u \in Range(tasks[i].calls) /\ u \in Range(tasks[j].calls)
    /\ tasks[i].seen.voice_states[u] = tasks[j].seen.voice_states[u]

\* C34 as stated: no two sweeps both issue a removal call for the same
\* connected user.
C34_OneCallPerConnection ==
    \A i, j \in TaskIds : \A u \in UserIds : ~BothRemove(i, j, u)

\* C34 amended: a sweep issues at most one removal call per user, and only for
\* a user the cache it read held as connected; sweeps are not coordinated, so
\* each of them may issue its own call for the user.
C34_OneCallPerSweepAndUser ==
    \A i \in TaskIds :
        LET t == tasks[i]
        IN /\ \A k, l \in DOMAIN t.calls : t.calls[k] = t.calls[l] => k = l
           /\ \A u \in Range(t.calls) : t.seen.voice_states[u].cached

\* C34 witness: the removal calls of two sweeps for the same connected user
\* are in flight at the same time.
C34_Witness ==
    \E i, j \in TaskIds : \E u \in UserIds :
        /\ BothRemove(i, j, u)
        /\ \E k \in tasks[i].pending : tasks[i].calls[k] = u
        /\ \E k \in tasks[j].pending : tasks[j].calls[k] = u

\* C35: no user appears twice among the candidates of a sweep, whatever its
\* scope, so no user is sent two removal calls by one sweep.
C35_CandidatesAreDistinct ==
    \A i \in TaskIds :
        LET t == tasks[i]
        IN /\ Cardinality(Range(t.candidates)) = Len(t.candidates)
           /\ Cardinality(Range(t.calls)) = Len(t.calls)

\* C35 witness: a guild sweep found candidates in two channels.
C35_Witness ==
    \E i \in TaskIds : \E u, w \in UserIds :
        LET t == tasks[i]
        IN /\ GuildSearch(t)
           /\ u \in Range(t.calls) /\ w \in Range(t.calls)
           /\ t.seen.voice_states[u].channel_id # t.seen.voice_states[w].channel_id

\* The oracle answers for the user in the channel of the user's voice state.
OracleAnswers(c, u) ==
    c.voice_states[u].cached /\ in_channel(c, u, c.voice_states[u].channel_id).ok

\* C36: a user for whom the oracle cannot answer is treated as permitted: the
\* search does not fail on such a user, it goes on with the other users, and
\* every candidate is a user for whom the oracle answered.
C36_OracleFailureMeansPermitted ==
    \A i \in TaskIds :
        LET t == tasks[i]
        IN t.searched =>
              /\ t.response # "Panic" /\ t.pc # "panicked"
              /\ \A u \in Range(t.candidates) : OracleAnswers(t.seen, u)

\* The prune command's caller lacks MOVE_MEMBERS and errorable has run.
Unprivileged(t) ==
    /\ IsCommand(t)
    /\ MOVE_MEMBERS \notin t.event.caller_permissions
    /\ t.pc \in {"remove", "join", "respond", "done", "panicked"}

\* C37: a prune command whose caller lacks MOVE_MEMBERS runs no search, issues
\* no removal call and answers with the missing-permission text.
C37_CallerNeedsMoveMembers ==
    \A i \in TaskIds :
        LET t == tasks[i]
        IN Unprivileged(t) =>
              /\ ~t.searched
              /\ t.candidates = <<>> /\ t.calls = <<>>
              /\ t.response = "RequiresMoveMembers"
              /\ t.pc \in {"respond", "done"}

\* C37 witness: the command of a caller without MOVE_MEMBERS was answered
\* while the guild had a violator a search would have found.
C37_Witness ==
    \E i \in TaskIds :
        /\ Unprivileged(tasks[i])
        /\ tasks[i].pc = "done"
        /\ Violators(cache) # {}

\* The acknowledgement of the prune command failed.
AckFailed(t) == IsCommand(t) /\ t.pc \notin {"update", "match", "ack"} /\ ~t.acked

\* C38: a prune command whose acknowledgement fails ends with that error: it
\* runs no search, issues no removal call and does not edit the response.
C38_FailedAckEndsCommand ==
    \A i \in TaskIds :
        LET t == tasks[i]
        IN AckFailed(t) =>
              /\ t.pc = "failed"
              /\ ~t.searched
              /\ t.calls = <<>>
              /\ t.edits = 0 /\ t.response = ""

\* C38 witness: the acknowledgement of a prune command for a channel with a
\* violator failed and the command has ended.
C38_Witness ==
    \E i \in TaskIds :
        /\ AckFailed(tasks[i])
        /\ tasks[i].pc = "failed"
        /\ MOVE_MEMBERS \in tasks[i].event.caller_permissions
        /\ Violators(cache) # {}

\* The task is a sweep of scope Member(u).
MemberSweep(t) == IsAuto(t) /\ t.mode.kind = "Member"

\* C39: a Member(u) sweep issues removal calls for nobody but u, and a
\* Channel(X) sweep only for users whose voice state is in X, whoever else
\* lacks CONNECT in a channel of their own.
C39_CallsStayInsideScope ==
    \A i \in TaskIds :
        LET t == tasks[i]
        IN /\ MemberSweep(t) => Range(t.calls) \subseteq {t.mode.id}
           /\ SearchedChannel(t) # NoId =>
                 \A u \in Range(t.calls) :
                    /\ t.seen.voice_states[u].cached
                    /\ t.seen.voice_states[u].channel_id = SearchedChannel(t)

\* C39 witness: a Channel(X) sweep issued its removal calls while a user
\* connected to another monitored channel lacked CONNECT there and got none.
C39_Witness ==
    \E i \in TaskIds : \E w \in UserIds :
        LET t == tasks[i]
        IN /\ SearchedChannel(t) # NoId
           /\ t.calls # <<>>
           /\ w \in Violators(t.seen)
           /\ t.seen.voice_states[w].channel_id # SearchedChannel(t)
           /\ w \notin Range(t.calls)

\* Runs in which every task that can take a step eventually takes one and
\* every removal call in flight eventually returns, for a few events whose
\* sweeps have candidates.
MaxFair == 2

FairEvents ==
    { MemberUpdate("u1", {}),
      PruneCommand("v1", NoRoleFilter, {MOVE_MEMBERS}) }

ReceiveFair(e) ==
    /\ Len(tasks) < MaxFair
    /\ tasks' = Append(tasks, NewTask(e))
    /\ UNCHANGED cache

NextFair ==
    \/ \E e \in FairEvents : ReceiveFair(e)
    \/ \E i \in TaskIds : CacheUpdate(i)
    \/ \E i \in TaskIds : Match(i)
    \/ \E i \in TaskIds : IsDisabled(i)
    \/ \E i \in TaskIds : Search(i)
    \/ \E i \in TaskIds : Prune(i)
    \/ \E i \in TaskIds : Remove(i)
    \/ \E i \in TaskIds : Spawn(i)
    \/ \E i \in TaskIds : \E k \in tasks[i].pending : \E ok \in BOOLEAN : Return(i, k, ok)
    \/ \E i \in TaskIds : \E ok \in BOOLEAN : Ack(i, ok)
    \/ \E i \in TaskIds : Command(i)
    \/ \E i \in TaskIds : CommandRole(i)
    \/ \E i \in TaskIds : Respond(i)

\* The scheduler polls every ready task, and every removal call returns.
SpecFair ==
    Init /\ [][NextFair]_vars /\ \A i \in 1..MaxFair : WF_vars(i \in TaskIds /\ Step(i))

\* Task i exists and has computed a non-empty candidate set.
HasCandidates(i) == i \in TaskIds /\ tasks[i].candidates # <<>>

\* Task i is over: it has ended, none of its removal calls is in flight, and
\* a prune command that had candidates has edited its response.
Over(i) ==
    /\ i \in TaskIds
    /\ Ended(tasks[i]) /\ tasks[i].pending = {}
    /\ HasCandidates(i) => Completed(tasks[i])

\* C40: every sweep terminates.  Once a task exists it eventually ends with
\* none of its removal calls in flight, and a sweep that has candidates
\* eventually completes (the auto-triggered task ends, the prune command edits
\* its response), whichever of its removal calls fail.
C40_EverySweepTerminates ==
    \A i \in 1..MaxFair : (i \in TaskIds) ~> Over(i)

\* C40 witness: a prune command edited its response after the removal call of
\* its candidate had failed, and the auto-triggered task of another event ended
\* after its removal call had failed.
C40_Witness ==
    \E i, j \in TaskIds :
        /\ IsCommand(tasks[i]) /\ IsAuto(tasks[j])
        /\ tasks[i].candidates # <<>> /\ tasks[j].candidates # <<>>
        /\ tasks[i].failed = Len(tasks[i].calls)
        /\ tasks[j].failed = Len(tasks[j].calls)
        /\ Over(i) /\ Over(j)

====
